---- MODULE Spec2Model ----
(***************************************************************************)
(* Model of rack_inteligente.c: the firmware main() that brings up Wi-Fi,  *)
(* resolves the MQTT broker, connects, and then polls a door contact and   *)
(* the on-chip temperature sensor forever, publishing every changed        *)
(* reading.                                                                *)
(*                                                                         *)
(* The lwIP / CYW43 side is the environment.  It is modelled at the        *)
(* interface the firmware uses, in polling mode: completions (DNS result,  *)
(* connection status) run as callbacks inside cyw43_arch_poll().           *)
(* mqtt_client_new() is taken to succeed.                                  *)
(*                                                                         *)
(* Temperatures are fixed-point, in thousandths of a degree, in place of   *)
(* the single-precision floats of the firmware.                            *)
(***************************************************************************)
EXTENDS Integers, Sequences, FiniteSets, TLC

\* ---------------------------------------------------------------- bounds
MaxTicks == 4        \* loop iterations explored
AdcBase == 875       \* lowest raw ADC sample explored (about 27 C)
AdcLevels == 2       \* number of consecutive raw ADC samples explored

AdcSamples == AdcBase .. (AdcBase + AdcLevels - 1)

\* ------------------------------------------------------------- constants
TEMPERATURE_UNITS == "C"
TopicDoor == "MQTT_TOPIC/door"
TopicTemperature == "MQTT_TOPIC/temperature"

\* err_t values that matter to the firmware
DnsErrs == {"ERR_OK", "ERR_INPROGRESS", "ERR_ARG"}
\* mqtt_connection_status_t values delivered to the connection callback
MQTT_CONNECT_ACCEPTED == "MQTT_CONNECT_ACCEPTED"
RefusedStatuses == {"MQTT_CONNECT_REFUSED_SERVER", "MQTT_CONNECT_DISCONNECTED",
                    "MQTT_CONNECT_TIMEOUT"}

VARIABLES
    pc,                     \* position of main()
    exit_code,              \* value returned by main(), 0 while running
    mqtt_connected,         \* static bool mqtt_connected
    last_rack_door_state,   \* static bool last_rack_door_state
    last_rack_temperature,  \* static float last_rack_temperature
    broker_ip,              \* static ip_addr_t broker_ip
    rack_port_state,        \* local of the loop body: this tick's door reading
    rack_temperature,       \* local of the loop body: this tick's temperature
    dns_state,              \* resolver: "idle", "pending", "done"
    client_state,           \* mqtt_client->conn_state
    tick,                   \* completed loop iterations
    events,                 \* history: resolver / session events of the run
    mqtt_tx,                \* history: mqtt_publish calls made in this tick
    doorOutcome,            \* history: outcome of this tick's door step
    tempOutcome,            \* history: outcome of this tick's temperature step
    lastAttemptDoor,        \* history: most recent door publish attempt
    lastAttemptTemp,        \* history: most recent temperature publish attempt
    doorRun,                \* history: current run of equal door readings
    tempRun,                \* history: current run of equal temperature readings
    failure,                \* history: what the last startup call reported
    conn_status,            \* history: status handed to the last connection callback
    gpio_level              \* history: raw level gpio_get returned in this tick

vars == <<pc, exit_code, mqtt_connected, last_rack_door_state,
          last_rack_temperature, broker_ip, rack_port_state, rack_temperature,
          dns_state, client_state, tick, events, mqtt_tx, doorOutcome,
          tempOutcome, lastAttemptDoor, lastAttemptTemp, doorRun, tempRun,
          failure, conn_status, gpio_level>>

progVars == <<mqtt_connected, last_rack_door_state, last_rack_temperature,
              broker_ip, rack_port_state, rack_temperature>>
envVars == <<dns_state, client_state>>
tickHist == <<gpio_level, mqtt_tx, doorOutcome, tempOutcome, lastAttemptDoor,
              lastAttemptTemp, doorRun, tempRun>>

\* the -1.0f that last_rack_temperature starts with and that an unknown
\* unit selector yields
SentinelTemp == 0 - 1000

NoRun == [len |-> 0, attempts |-> 0, changed |-> FALSE, late |-> FALSE]

Init ==
    /\ pc = "cyw43_arch_init"
    /\ exit_code = 0
    /\ mqtt_connected = FALSE
    /\ last_rack_door_state = FALSE
    /\ last_rack_temperature = SentinelTemp
    /\ broker_ip = "unset"
    /\ rack_port_state = FALSE
    /\ rack_temperature = SentinelTemp
    /\ dns_state = "idle"
    /\ client_state = "TCP_DISCONNECTED"
    /\ tick = 0
    /\ events = <<>>
    /\ mqtt_tx = <<>>
    /\ doorOutcome = "None"
    /\ tempOutcome = "None"
    /\ lastAttemptDoor = [val |-> FALSE, outcome |-> "None"]
    /\ lastAttemptTemp = [val |-> SentinelTemp, outcome |-> "None"]
    /\ doorRun = NoRun
    /\ tempRun = NoRun
    /\ failure = "none"
    /\ conn_status = "none"
    /\ gpio_level = TRUE

\* ------------------------------------------------------------- startup
\* if (cyw43_arch_init()) return -1;
ArchInit ==
    /\ pc = "cyw43_arch_init"
    /\ \E rc \in {0, 1} :
         /\ failure' = IF rc # 0 THEN "radio_init" ELSE "none"
         /\ IF rc # 0
            THEN /\ pc' = "exited"
                 /\ exit_code' = 0 - 1
            ELSE /\ pc' = "wifi_connect"
                 /\ UNCHANGED exit_code
    /\ UNCHANGED <<progVars, envVars, tick, events, conn_status, tickHist>>

\* if (cyw43_arch_wifi_connect_timeout_ms(...)) return -1;
WifiConnect ==
    /\ pc = "wifi_connect"
    /\ \E rc \in {0, 1} :
         /\ failure' = IF rc # 0 THEN "wifi_connect" ELSE "none"
         /\ IF rc # 0
            THEN /\ pc' = "exited"
                 /\ exit_code' = 0 - 1
            ELSE /\ pc' = "dns_gethostbyname"
                 /\ UNCHANGED exit_code
    /\ UNCHANGED <<progVars, envVars, tick, events, conn_status, tickHist>>

\* --------------------------------------------------- lwIP, as the firmware sees it
\* mqtt_client_connect(): refuses with ERR_ISCONN unless the client is idle;
\* otherwise the request is either started (ok) or fails at once (ERR_MEM,
\* ERR_RTE, ...).  The firmware ignores the returned err_t.
mqtt_client_connect(cs, ok) ==
    IF cs # "TCP_DISCONNECTED" THEN cs
    ELSE IF ok THEN "MQTT_CONNECTING" ELSE "TCP_DISCONNECTED"

\* err_t values mqtt_publish() can return in the client's current state
mqtt_publish_errs ==
    IF client_state = "TCP_DISCONNECTED" THEN {"ERR_CONN"}
    ELSE {"ERR_OK", "ERR_MEM"}

\* statuses lwIP can report to the connection callback in the client's state
ConnStatuses ==
    IF client_state = "MQTT_CONNECTING"
    THEN {MQTT_CONNECT_ACCEPTED} \cup RefusedStatuses
    ELSE {"MQTT_CONNECT_DISCONNECTED", "MQTT_CONNECT_TIMEOUT"}

\* ------------------------------------------------------------ callbacks
\* a variant that starts the connect without looking at ipaddr
dns_check_callback_nocheck(ipaddr, ok) ==
    [broker_ip    |-> IF ipaddr # "NULL" THEN ipaddr ELSE broker_ip,
     client_state |-> mqtt_client_connect(client_state, ok),
     log          |-> <<IF ipaddr # "NULL" THEN "dns_found" ELSE "dns_failed",
                        "connect_request">>]

\* void dns_check_callback(name, ipaddr, callback_arg): the values it leaves
\* in broker_ip and in the client, and what it did (log)
dns_check_callback(ipaddr, ok) ==
    IF ipaddr # "NULL"
    THEN [broker_ip    |-> ipaddr,
          client_state |-> mqtt_client_connect(client_state, ok),
          log          |-> <<"dns_found", "connect_request">>]
    ELSE [broker_ip    |-> broker_ip,
          client_state |-> client_state,
          log          |-> <<"dns_failed">>]

\* a variant that reports "connected" whatever the status
mqtt_connection_callback_always(status) == TRUE

\* a variant that takes only a refusal by the broker as a failure
mqtt_connection_callback_refusedOnly(status) ==
    IF status = "MQTT_CONNECT_REFUSED_SERVER" THEN FALSE ELSE TRUE

\* a variant whose else branch leaves the flag alone
mqtt_connection_callback_sticky(status) ==
    IF status = MQTT_CONNECT_ACCEPTED THEN TRUE ELSE mqtt_connected

\* static void mqtt_connection_callback(client, arg, status): the new value
\* of mqtt_connected
mqtt_connection_callback(status) ==
    IF status = MQTT_CONNECT_ACCEPTED THEN TRUE ELSE FALSE

\* -------------------------------------------------- broker name resolution
\* a variant that also runs the callback by hand while the lookup is pending
MainDnsBranch_eager(err) ==
    IF err = "ERR_OK" \/ err = "ERR_INPROGRESS" THEN "callback" ELSE "abort"

\* a variant that carries on after a submission error
MainDnsBranch_lenient(err) ==
    IF err = "ERR_OK" THEN "callback" ELSE "wait"

\* the if / else if / else on the err_t of dns_gethostbyname()
MainDnsBranch(err) ==
    IF err = "ERR_OK" THEN "callback"
    ELSE IF err = "ERR_INPROGRESS" THEN "wait"
    ELSE "abort"

\* mqtt_client_new(); err = dns_gethostbyname(...); dispatch on err
DnsRequest ==
    /\ pc = "dns_gethostbyname"
    /\ \E err \in DnsErrs, ok \in BOOLEAN :
         LET branch == MainDnsBranch(err)
             \* dns_gethostbyname() fills *addr only when it returns ERR_OK
             filled == IF err = "ERR_OK" THEN "addr" ELSE broker_ip
             cb == dns_check_callback(filled, ok)
         IN /\ dns_state' = IF err = "ERR_INPROGRESS" THEN "pending"
                            ELSE IF err = "ERR_OK" THEN "done" ELSE "idle"
            /\ failure' = IF err \in {"ERR_OK", "ERR_INPROGRESS"}
                          THEN "none" ELSE "dns_submit"
            /\ IF branch = "callback"
               THEN /\ broker_ip' = cb.broker_ip
                    /\ client_state' = cb.client_state
                    /\ events' = events \o <<"dns_request">> \o cb.log
                    /\ pc' = "cyw43_arch_poll"
                    /\ UNCHANGED exit_code
               ELSE IF branch = "wait"
               THEN /\ broker_ip' = filled
                    /\ events' = events \o <<"dns_request", "dns_inprogress">>
                    /\ pc' = "cyw43_arch_poll"
                    /\ UNCHANGED <<client_state, exit_code>>
               ELSE /\ broker_ip' = filled
                    /\ events' = Append(events, "dns_request")
                    /\ pc' = "exited"
                    /\ exit_code' = 0 - 1
                    /\ UNCHANGED client_state
    /\ UNCHANGED <<mqtt_connected, last_rack_door_state, last_rack_temperature,
                   rack_port_state, rack_temperature, tick, conn_status,
                   tickHist>>

\* ------------------------------------------------------- cyw43_arch_poll()
\* the pending lookup completes: lwIP calls dns_check_callback once, with the
\* address or with NULL
PollDns ==
    /\ pc = "cyw43_arch_poll"
    /\ dns_state = "pending"
    /\ \E ipaddr \in {"NULL", "addr"}, ok \in BOOLEAN :
         LET cb == dns_check_callback(ipaddr, ok)
         IN /\ broker_ip' = cb.broker_ip
            /\ client_state' = cb.client_state
            /\ events' = events \o cb.log
    /\ dns_state' = "done"
    /\ UNCHANGED <<pc, exit_code, failure, mqtt_connected,
                   last_rack_door_state, last_rack_temperature,
                   rack_port_state, rack_temperature, tick, conn_status,
                   tickHist>>

\* the client reports a connection status: CONNACK or a failure while
\* connecting, the loss of the connection once established.  After any status
\* but "accepted" the client is closed.
PollConn ==
    /\ pc = "cyw43_arch_poll"
    /\ client_state \in {"MQTT_CONNECTING", "MQTT_CONNECTED"}
    /\ \E status \in ConnStatuses :
         /\ mqtt_connected' = mqtt_connection_callback(status)
         /\ conn_status' = status
         /\ client_state' = IF status = MQTT_CONNECT_ACCEPTED
                            THEN "MQTT_CONNECTED" ELSE "TCP_DISCONNECTED"
         /\ events' = Append(events, IF status = MQTT_CONNECT_ACCEPTED
                                     THEN "conn_accepted" ELSE "conn_failed")
    /\ UNCHANGED <<pc, exit_code, failure, last_rack_door_state,
                   last_rack_temperature, broker_ip, rack_port_state,
                   rack_temperature, dns_state, tick, tickHist>>

\* cyw43_arch_poll() returns to the loop body
PollReturn ==
    /\ pc = "cyw43_arch_poll"
    /\ pc' = "door"
    /\ UNCHANGED <<exit_code, failure, progVars, envVars, tick, events,
                   conn_status, tickHist>>

\* ---------------------------------------------------------- sensor readers
\* float read_rack_temperature(const char unit), on the raw sample adc_read()
\* returned: volts = raw * 3.3 / 4096, tempC = 27 - (volts - 0.706) / 0.001721
\* (microvolts and thousandths of a degree here)
read_rack_temperature(unit, raw) ==
    LET microvolts == (raw * 103125) \div 128     \* raw * 3300000 / 4096
        d == microvolts - 706000
        \* d * 1000 / 1721, kept within 32 bits
        tempC == 27000 - (((d \div 1721) * 1000) + (((d % 1721) * 1000) \div 1721))
    IN IF unit = "C" THEN tempC
       ELSE IF unit = "F" THEN ((tempC * 9) \div 5) + 32000
       ELSE SentinelTemp

DigitChars == <<"0", "1", "2", "3", "4", "5", "6", "7", "8", "9">>

RECURSIVE Digits(_)
Digits(n) ==
    IF n < 10 THEN <<DigitChars[n + 1]>>
    ELSE Digits(n \div 10) \o <<DigitChars[(n % 10) + 1]>>

\* snprintf(message, sizeof(message), "%.2f", temperature): sign, integer
\* part, point, two rounded decimals, cut to the 15 characters message[16] holds
FormatTemperature(t) ==
    LET mag == IF t < 0 THEN 0 - t ELSE t
        hundredths == (mag + 5) \div 10
        text == (IF t < 0 THEN <<"-">> ELSE <<>>)
                \o Digits(hundredths \div 100) \o <<".">>
                \o <<DigitChars[((hundredths \div 10) % 10) + 1],
                     DigitChars[(hundredths % 10) + 1]>>
    IN IF Len(text) > 15 THEN SubSeq(text, 1, 15) ELSE text

\* const char *message = pressed ? "ON" : "OFF";
FormatDoor(pressed) == IF pressed THEN <<"O", "N">> ELSE <<"O", "F", "F">>

\* mqtt_publish(mqtt_client, topic, message, strlen(message), 0, 0, NULL, NULL)
\* and the err_t it returned
MqttPublishCall(topic, message, err) ==
    [topic |-> topic, payload |-> message, length |-> Len(message),
     qos |-> 0, retain |-> 0, result |-> err]

\* --------------------------------------------------------------- publisher
\* a variant without the connection check
publish_door_state_unguarded(pressed, err) ==
    [calls   |-> <<MqttPublishCall(TopicDoor, FormatDoor(pressed), err)>>,
     outcome |-> IF err = "ERR_OK" THEN "Sent" ELSE "Failed"]

\* void publish_door_state(bool pressed); err is what mqtt_publish returns
publish_door_state(pressed, err) ==
    IF ~mqtt_connected
    THEN [calls |-> <<>>, outcome |-> "Dropped"]
    ELSE [calls   |-> <<MqttPublishCall(TopicDoor, FormatDoor(pressed), err)>>,
          outcome |-> IF err = "ERR_OK" THEN "Sent" ELSE "Failed"]

\* void publish_rack_temperature(float temperature)
publish_rack_temperature(temperature, err) ==
    IF ~mqtt_connected
    THEN [calls |-> <<>>, outcome |-> "Dropped"]
    ELSE [calls   |-> <<MqttPublishCall(TopicTemperature,
                                        FormatTemperature(temperature), err)>>,
          outcome |-> IF err = "ERR_OK" THEN "Sent" ELSE "Failed"]

\* ----------------------------------------------------------- change detector
\* a variant that sees a change on every tick
ChangeDetected_always(current, last) == TRUE

\* if (rack_port_state != last_rack_door_state),
\* if (rack_temperature != last_rack_temperature)
ChangeDetected(current, last) == current # last

\* a variant that remembers a value only when it was handed to the transport
DoorChannel_keepOnDrop(current, err) ==
    IF ChangeDetected(current, last_rack_door_state)
    THEN LET r == publish_door_state(current, err)
         IN [calls |-> r.calls, outcome |-> r.outcome,
             last |-> IF r.outcome = "Dropped" THEN last_rack_door_state
                      ELSE current]
    ELSE [calls |-> <<>>, outcome |-> "Skipped", last |-> last_rack_door_state]

\* a variant that remembers a value only when the transport took it
DoorChannel_keepOnFail(current, err) ==
    IF ChangeDetected(current, last_rack_door_state)
    THEN LET r == publish_door_state(current, err)
         IN [calls |-> r.calls, outcome |-> r.outcome,
             last |-> IF r.outcome = "Failed" THEN last_rack_door_state
                      ELSE current]
    ELSE [calls |-> <<>>, outcome |-> "Skipped", last |-> last_rack_door_state]

\* the door half of the loop body after the read: compare, publish, remember
DoorChannel(current, err) ==
    IF ChangeDetected(current, last_rack_door_state)
    THEN LET r == publish_door_state(current, err)
         IN [calls |-> r.calls, outcome |-> r.outcome, last |-> current]
    ELSE [calls |-> <<>>, outcome |-> "Skipped", last |-> last_rack_door_state]

\* the temperature half of the loop body after the read
TempChannel(current, err) ==
    IF ChangeDetected(current, last_rack_temperature)
    THEN LET r == publish_rack_temperature(current, err)
         IN [calls |-> r.calls, outcome |-> r.outcome, last |-> current]
    ELSE [calls |-> <<>>, outcome |-> "Skipped", last |-> last_rack_temperature]

\* ------------------------------------------------------ history bookkeeping
\* the run of equal readings after one more reading: "changed" says whether
\* the run's value differed from the last attempted value when the run began,
\* "late" whether an attempt was made after the run's first tick
RunAfter(run, sameAsPrevious, attempted, differsFromLastAttempt) ==
    IF run.len > 0 /\ sameAsPrevious
    THEN [len |-> run.len + 1,
          attempts |-> run.attempts + (IF attempted THEN 1 ELSE 0),
          changed |-> run.changed,
          late |-> run.late \/ attempted]
    ELSE [len |-> 1,
          attempts |-> IF attempted THEN 1 ELSE 0,
          changed |-> differsFromLastAttempt,
          late |-> FALSE]

AttemptAfter(previous, current, outcome) ==
    IF outcome = "Skipped" THEN previous
    ELSE [val |-> current, outcome |-> outcome]

\* ---------------------------------------------------------------- main loop
\* a variant that takes the raw level as the door state
ReadDoor_raw(level) == level

\* !gpio_get(RACK_PORT_STATE): the pin idles high under its pull-up
ReadDoor(level) == ~level

\* bool rack_port_state = !gpio_get(RACK_PORT_STATE); if (changed) { publish;
\* last_rack_door_state = rack_port_state; }
DoorStep ==
    /\ pc = "door"
    /\ \E level \in BOOLEAN, err \in mqtt_publish_errs :
         LET current == ReadDoor(level)
             r == DoorChannel(current, err)
         IN /\ gpio_level' = level
            /\ rack_port_state' = current
            /\ last_rack_door_state' = r.last
            /\ mqtt_tx' = mqtt_tx \o r.calls
            /\ doorOutcome' = r.outcome
            /\ lastAttemptDoor' = AttemptAfter(lastAttemptDoor, current, r.outcome)
            /\ doorRun' = RunAfter(doorRun, current = rack_port_state,
                                   r.outcome # "Skipped",
                                   current # lastAttemptDoor.val)
    /\ pc' = "temp"
    /\ UNCHANGED <<exit_code, failure, mqtt_connected, last_rack_temperature,
                   broker_ip, rack_temperature, envVars, tick, events,
                   conn_status, tempOutcome, lastAttemptTemp, tempRun>>

\* float rack_temperature = read_rack_temperature(TEMPERATURE_UNITS);
\* if (changed) { publish; last_rack_temperature = rack_temperature; }
TempStep ==
    /\ pc = "temp"
    /\ \E raw \in AdcSamples, err \in mqtt_publish_errs :
         LET current == read_rack_temperature(TEMPERATURE_UNITS, raw)
             r == TempChannel(current, err)
         IN /\ rack_temperature' = current
            /\ last_rack_temperature' = r.last
            /\ mqtt_tx' = mqtt_tx \o r.calls
            /\ tempOutcome' = r.outcome
            /\ lastAttemptTemp' = AttemptAfter(lastAttemptTemp, current, r.outcome)
            /\ tempRun' = RunAfter(tempRun, current = rack_temperature,
                                   r.outcome # "Skipped",
                                   current # lastAttemptTemp.val)
    /\ pc' = "sleep"
    /\ UNCHANGED <<exit_code, failure, mqtt_connected, last_rack_door_state,
                   broker_ip, rack_port_state, envVars, tick, events,
                   conn_status, gpio_level, doorOutcome, lastAttemptDoor,
                   doorRun>>

\* a variant whose loop ends after one pass: cyw43_arch_deinit(); return 0;
Sleep_returns ==
    /\ pc = "sleep"
    /\ pc' = "exited"
    /\ UNCHANGED <<exit_code, failure, progVars, envVars, tick, events,
                   conn_status, tickHist>>

\* a variant with cyw43_arch_poll() left outside the loop
Sleep_skipsPoll ==
    /\ pc = "sleep"
    /\ tick < MaxTicks
    /\ tick' = tick + 1
    /\ pc' = "door"
    /\ mqtt_tx' = <<>>
    /\ doorOutcome' = "None"
    /\ tempOutcome' = "None"
    /\ UNCHANGED <<exit_code, failure, progVars, envVars, events,
                   conn_status, gpio_level, lastAttemptDoor, lastAttemptTemp,
                   doorRun, tempRun>>

\* sleep_ms(1000); and around to the top of while (true)
Sleep ==
    /\ pc = "sleep"
    /\ tick < MaxTicks
    /\ tick' = tick + 1
    /\ pc' = "cyw43_arch_poll"
    /\ mqtt_tx' = <<>>
    /\ doorOutcome' = "None"
    /\ tempOutcome' = "None"
    /\ UNCHANGED <<exit_code, failure, progVars, envVars, events,
                   conn_status, gpio_level, lastAttemptDoor, lastAttemptTemp,
                   doorRun, tempRun>>

Next ==
    \/ ArchInit
    \/ WifiConnect
    \/ DnsRequest
    \/ PollDns
    \/ PollConn
    \/ PollReturn
    \/ DoorStep
    \/ TempStep
    \/ Sleep

Spec == Init /\ [][Next]_vars

\* the loop body never blocks: cyw43_arch_poll(), the sensor reads, the
\* publish calls and sleep_ms() all return.  Nothing is assumed about the
\* delivery of callbacks.
FairSpec ==
    /\ Spec
    /\ WF_vars(PollReturn)
    /\ WF_vars(DoorStep)
    /\ WF_vars(TempStep)
    /\ WF_vars(Sleep)

\* ------------------------------------------------------------------ helpers
RECURSIVE Count(_, _)
Count(seq, e) ==
    IF seq = <<>> THEN 0
    ELSE (IF Head(seq) = e THEN 1 ELSE 0) + Count(Tail(seq), e)

Occurs(seq, e) == \E i \in 1..Len(seq) : seq[i] = e

\* the calls a step added to this tick's mqtt_publish calls
NewCalls == IF Len(mqtt_tx') > Len(mqtt_tx)
            THEN SubSeq(mqtt_tx', Len(mqtt_tx) + 1, Len(mqtt_tx'))
            ELSE <<>>

DoorStepTaken == pc = "door" /\ pc' = "temp"
TempStepTaken == pc = "temp" /\ pc' = "sleep"
LoopPcs == {"cyw43_arch_poll", "door", "temp", "sleep"}

\* --------------------------------------------------------------------- C1
\* C1: mqtt_publish is called only from the door or temperature step and only
\* while mqtt_connected is true; a step that sees a changed reading while not
\* connected hands nothing to the transport (outcome Dropped), and whatever a
\* step does hand over carries that step's own reading, never an earlier one.
C1_PublishOnlyWhenConnected ==
    [][ /\ (NewCalls # <<>>) => (mqtt_connected /\ (DoorStepTaken \/ TempStepTaken))
        /\ (DoorStepTaken /\ ~mqtt_connected) =>
              /\ mqtt_tx' = mqtt_tx
              /\ (rack_port_state' # last_rack_door_state) => doorOutcome' = "Dropped"
        /\ (TempStepTaken /\ ~mqtt_connected) =>
              /\ mqtt_tx' = mqtt_tx
              /\ (rack_temperature' # last_rack_temperature) => tempOutcome' = "Dropped"
        /\ DoorStepTaken =>
              \A i \in 1..Len(NewCalls) :
                  NewCalls[i].payload = FormatDoor(rack_port_state')
        /\ TempStepTaken =>
              \A i \in 1..Len(NewCalls) :
                  NewCalls[i].payload = FormatTemperature(rack_temperature')
      ]_vars

\* a temperature reading was dropped earlier, and this tick's door reading was
\* handed to the transport once the session was up
C1_Witness ==
    /\ lastAttemptTemp.outcome = "Dropped"
    /\ doorOutcome = "Sent"
    /\ Len(mqtt_tx) = 1

\* --------------------------------------------------------------------- C2
\* C2: on every tick the door step attempts a publish if and only if the
\* tick's reading differs from the value of the last attempt on the door
\* channel (false before any attempt), whatever became of that attempt.
C2_AttemptIffDiffersFromLastAttempt ==
    [][ DoorStepTaken =>
          ((doorOutcome' # "Skipped") <=> (rack_port_state' # lastAttemptDoor.val))
      ]_vars

\* the last door attempt was dropped, the session is up now, and the same
\* reading is skipped
C2_Witness ==
    /\ lastAttemptDoor.outcome = "Dropped"
    /\ doorOutcome = "Skipped"
    /\ mqtt_connected

\* --------------------------------------------------------------------- C3
\* C3 as stated: a run of two or more equal readings on a channel sees exactly
\* one publish attempt.
C3_Original ==
    /\ (doorRun.len >= 2) => (doorRun.attempts = 1)
    /\ (tempRun.len >= 2) => (tempRun.attempts = 1)

\* C3 amended: in a run of two or more equal readings no attempt is made after
\* the run's first tick; on the first tick one attempt is made if the reading
\* differs from the channel's last attempted value, and none otherwise, which
\* happens only for door readings equal to the initial default (false) before
\* any attempt was made.  A temperature run always sees exactly one attempt.
C3_OneAttemptPerChangedRun ==
    /\ (doorRun.len >= 2) =>
          /\ ~doorRun.late
          /\ doorRun.attempts = (IF doorRun.changed THEN 1 ELSE 0)
          /\ ~doorRun.changed =>
                (lastAttemptDoor.outcome = "None" /\ rack_port_state = FALSE)
    /\ (tempRun.len >= 2) =>
          /\ ~tempRun.late
          /\ tempRun.attempts = 1

\* a changed door reading repeated, and a temperature repeated: one attempt each
C3_Witness ==
    /\ doorRun.len >= 2
    /\ doorRun.changed
    /\ doorRun.attempts = 1
    /\ tempRun.len >= 2
    /\ tempRun.attempts = 1

\* --------------------------------------------------------------------- C4
\* C4: a step that processes a changed reading while mqtt_connected is false
\* ends Dropped, makes no mqtt_publish call, and leaves the channel's
\* last-published value equal to the new reading.
C4_DroppedStillAdvances ==
    [][ /\ (DoorStepTaken /\ ~mqtt_connected
              /\ rack_port_state' # last_rack_door_state) =>
              /\ doorOutcome' = "Dropped"
              /\ NewCalls = <<>>
              /\ last_rack_door_state' = rack_port_state'
        /\ (TempStepTaken /\ ~mqtt_connected
              /\ rack_temperature' # last_rack_temperature) =>
              /\ tempOutcome' = "Dropped"
              /\ NewCalls = <<>>
              /\ last_rack_temperature' = rack_temperature'
      ]_vars

\* the door closed while the session was down: dropped, yet remembered
C4_Witness ==
    /\ pc = "temp"
    /\ ~mqtt_connected
    /\ doorOutcome = "Dropped"
    /\ rack_port_state = TRUE
    /\ last_rack_door_state = TRUE
    /\ mqtt_tx = <<>>

\* --------------------------------------------------------------------- C5
ResolvedThenAccepted(prefix) ==
    prefix \o <<"dns_found", "connect_request", "conn_accepted">>
ResolvedThenRejected(prefix) ==
    prefix \o <<"dns_found", "connect_request", "conn_failed">>
StartupPrefixes == {<<"dns_request">>, <<"dns_request", "dns_inprogress">>}

\* C5: after (address resolved, connection accepted) mqtt_connected is true;
\* after (address resolved, connection rejected) it is false, and from then on
\* nothing more happens to the session: no resolve request, no connect
\* request, no callback, the flag stays false and the client stays closed.
C5_ConnectionStateMachine ==
    [][ \A prefix \in StartupPrefixes :
          /\ (events' = ResolvedThenAccepted(prefix)) =>
                (mqtt_connected' /\ client_state' = "MQTT_CONNECTED")
          /\ (events' = ResolvedThenRejected(prefix)) =>
                (~mqtt_connected' /\ client_state' = "TCP_DISCONNECTED")
          /\ (events = ResolvedThenRejected(prefix)) =>
                (events' = events /\ dns_state' = dns_state)
      ]_vars

\* the connection was rejected after an asynchronous resolution, and the loop
\* has completed a tick since
C5_Witness ==
    /\ events = ResolvedThenRejected(<<"dns_request", "dns_inprogress">>)
    /\ ~mqtt_connected
    /\ tick >= 1
    /\ pc = "sleep"

\* --------------------------------------------------------------------- C6
\* the session was accepted and a later status callback reported its loss
ConnectedThenLost ==
    \E i, j \in 1..Len(events) :
        i < j /\ events[i] = "conn_accepted" /\ events[j] = "conn_failed"

\* C6: once the session was Connected and then lost, mqtt_connected is false
\* in that and every later state, and the single resolve request and the
\* single connect request of the run are never followed by another.
C6_NoAutomaticReconnect ==
    [][ ConnectedThenLost' =>
          /\ ~mqtt_connected'
          /\ Count(events', "dns_request") = 1
          /\ Count(events', "connect_request") = 1
          /\ client_state' = "TCP_DISCONNECTED"
      ]_vars

\* the session was lost, and a door change seen afterwards was dropped
C6_Witness ==
    /\ ConnectedThenLost
    /\ doorOutcome = "Dropped"
    /\ tick >= 1

\* --------------------------------------------------------------------- C7
\* C7: mqtt_client_connect is called at most once per step and only while the
\* client has no connect request outstanding and no session established.
C7_OneConnectInFlight ==
    [][ (Count(events', "connect_request") > Count(events, "connect_request")) =>
          /\ Count(events', "connect_request") = Count(events, "connect_request") + 1
          /\ client_state = "TCP_DISCONNECTED"
      ]_vars

\* a connect request issued from the asynchronous DNS callback is in flight
C7_Witness ==
    /\ events = <<"dns_request", "dns_inprogress", "dns_found", "connect_request">>
    /\ client_state = "MQTT_CONNECTING"

\* --------------------------------------------------------------------- C8
\* C8: once the resolver callback reported no address, the resolution is not
\* retried, no connect request is ever issued, mqtt_connected stays false,
\* the program stays in its loop, and every changed reading is dropped with
\* no call to the transport.
C8_ResolutionFailureIsFinal ==
    [][ Occurs(events', "dns_failed") =>
          /\ Count(events', "dns_request") = 1
          /\ Count(events', "connect_request") = 0
          /\ ~mqtt_connected'
          /\ pc' \in LoopPcs
          /\ mqtt_tx' = <<>>
          /\ Occurs(events, "dns_failed") => events' = events
          /\ (DoorStepTaken /\ rack_port_state' # last_rack_door_state) =>
                doorOutcome' = "Dropped"
          /\ (TempStepTaken /\ rack_temperature' # last_rack_temperature) =>
                tempOutcome' = "Dropped"
      ]_vars

\* resolution failed, and on a later tick both readings were dropped
C8_Witness ==
    /\ Occurs(events, "dns_failed")
    /\ tick >= 1
    /\ doorOutcome = "Dropped"
    /\ tempOutcome = "Dropped"

\* --------------------------------------------------------------------- C9
StartupFailures == {"radio_init", "wifi_connect", "dns_submit"}

\* C9: the program exits exactly when cyw43_arch_init, the Wi-Fi association
\* or the DNS submission reports failure; it then returns -1 before the first
\* tick, with no sensor read, no connect request and no publish attempt; and
\* once in the loop it never leaves it.
C9_ExitOnlyOnStartupFailure ==
    [][ /\ (pc' = "exited") <=> (failure' \in StartupFailures)
        /\ (pc' = "exited") =>
              /\ exit_code' = 0 - 1
              /\ tick' = 0
              /\ doorRun'.len = 0 /\ tempRun'.len = 0
              /\ Count(events', "connect_request") = 0
              /\ lastAttemptDoor'.outcome = "None"
              /\ lastAttemptTemp'.outcome = "None"
              /\ mqtt_tx' = <<>>
        /\ (pc \in LoopPcs) => (pc' \in LoopPcs)
        /\ (pc = "exited") => UNCHANGED vars
      ]_vars

\* the DNS request could not be submitted and main returned -1
C9_Witness ==
    /\ pc = "exited"
    /\ failure = "dns_submit"
    /\ exit_code = 0 - 1

\* -------------------------------------------------------------------- C10
\* C10: when mqtt_publish returns an error while connected the step ends
\* Failed after that single call, the channel's last-published value is the
\* new reading, and mqtt_connected is unchanged; the next attempt on the
\* channel is made on the first later tick whose reading differs from the
\* failed value, and on no tick before that.
C10_FailedIsNotRetried ==
    [][ /\ (DoorStepTaken /\ NewCalls # <<>> /\ NewCalls[1].result # "ERR_OK") =>
              /\ doorOutcome' = "Failed"
              /\ Len(NewCalls) = 1
              /\ last_rack_door_state' = rack_port_state'
              /\ mqtt_connected' = mqtt_connected
        /\ (TempStepTaken /\ NewCalls # <<>> /\ NewCalls[1].result # "ERR_OK") =>
              /\ tempOutcome' = "Failed"
              /\ Len(NewCalls) = 1
              /\ last_rack_temperature' = rack_temperature'
              /\ mqtt_connected' = mqtt_connected
        /\ (DoorStepTaken /\ lastAttemptDoor.outcome = "Failed") =>
              ((doorOutcome' # "Skipped") <=> (rack_port_state' # lastAttemptDoor.val))
        /\ (TempStepTaken /\ lastAttemptTemp.outcome = "Failed") =>
              ((tempOutcome' # "Skipped") <=> (rack_temperature' # lastAttemptTemp.val))
      ]_vars

\* a door publish failed, and the same reading on a later tick is skipped
\* although the session is still up
C10_Witness ==
    /\ lastAttemptDoor.outcome = "Failed"
    /\ doorOutcome = "Skipped"
    /\ mqtt_connected

\* -------------------------------------------------------------------- C11
\* a step in which mqtt_connection_callback ran
ConnCallbackRan ==
    /\ Len(events') = Len(events) + 1
    /\ events'[Len(events')] \in {"conn_accepted", "conn_failed"}

\* C11: right after a connection-status callback, whether the client was
\* connecting or connected, mqtt_connected is false for every status other
\* than MQTT_CONNECT_ACCEPTED and true only for MQTT_CONNECT_ACCEPTED.
C11_FlagFollowsStatus ==
    [][ ConnCallbackRan =>
          /\ client_state \in {"MQTT_CONNECTING", "MQTT_CONNECTED"}
          /\ (conn_status' # MQTT_CONNECT_ACCEPTED) => ~mqtt_connected'
          /\ (conn_status' = MQTT_CONNECT_ACCEPTED) => mqtt_connected'
          /\ (events'[Len(events')] = "conn_accepted")
                <=> (conn_status' = MQTT_CONNECT_ACCEPTED)
      ]_vars

\* an established session timed out and the flag was cleared
C11_Witness ==
    /\ ConnectedThenLost
    /\ conn_status = "MQTT_CONNECT_TIMEOUT"
    /\ ~mqtt_connected

\* -------------------------------------------------------------------- C12
\* C12: once the loop is entered every tick below the explored bound is
\* completed, whatever failed after startup and whether or not the pending
\* callbacks are ever delivered; the loop is never left.
C12_LoopKeepsTicking ==
    /\ \A k \in 0..(MaxTicks - 1) :
          ((pc \in LoopPcs /\ tick = k) ~> (pc \in LoopPcs /\ tick = k + 1))
    /\ [](pc \in LoopPcs => [](pc \in LoopPcs))

\* the loop has ticked twice while the DNS callback was never delivered
C12_Witness ==
    /\ tick >= 2
    /\ dns_state = "pending"
    /\ pc = "sleep"
    /\ doorOutcome = "Dropped"

\* -------------------------------------------------------------------- C13
\* a step in which the body of dns_check_callback or of
\* mqtt_connection_callback ran
CallbackRan ==
    \/ Count(events', "dns_found") > Count(events, "dns_found")
    \/ Count(events', "dns_failed") > Count(events, "dns_failed")
    \/ Count(events', "conn_accepted") > Count(events, "conn_accepted")
    \/ Count(events', "conn_failed") > Count(events, "conn_failed")

\* C13 as stated: callback bodies run only inside cyw43_arch_poll().
C13_Original ==
    [][ CallbackRan => (pc = "cyw43_arch_poll" /\ pc' = "cyw43_arch_poll") ]_vars

\* C13 amended: callback bodies run only inside cyw43_arch_poll(), with one
\* exception before the first tick: when dns_gethostbyname returns ERR_OK,
\* main itself calls dns_check_callback once.  No callback body runs in the
\* door step, the temperature step or the sleep of any tick.
C13_CallbacksOnlyInPollOrFastPath ==
    [][ CallbackRan =>
          \/ (pc = "cyw43_arch_poll" /\ pc' = "cyw43_arch_poll")
          \/ /\ pc = "dns_gethostbyname"
             /\ tick' = 0
             /\ dns_state' = "done"
             /\ events' = <<"dns_request", "dns_found", "connect_request">>
      ]_vars

\* the session was accepted inside the poll of a later tick, after an
\* asynchronous resolution
C13_Witness ==
    /\ pc = "cyw43_arch_poll"
    /\ tick >= 1
    /\ events = <<"dns_request", "dns_inprogress", "dns_found",
                  "connect_request", "conn_accepted">>

\* -------------------------------------------------------------------- C14
\* C14: while the reading stays equal to a value whose publish attempt was
\* dropped, the channel's step is Skipped and calls nothing, also once
\* mqtt_connected has become true.
C14_DroppedValueNotResent ==
    [][ /\ (DoorStepTaken /\ lastAttemptDoor.outcome = "Dropped"
              /\ rack_port_state' = lastAttemptDoor.val) =>
              (doorOutcome' = "Skipped" /\ NewCalls = <<>>
                 /\ lastAttemptDoor' = lastAttemptDoor)
        /\ (TempStepTaken /\ lastAttemptTemp.outcome = "Dropped"
              /\ rack_temperature' = lastAttemptTemp.val) =>
              (tempOutcome' = "Skipped" /\ NewCalls = <<>>
                 /\ lastAttemptTemp' = lastAttemptTemp)
      ]_vars

\* a dropped temperature is skipped on a later tick although the session is up
C14_Witness ==
    /\ lastAttemptTemp.outcome = "Dropped"
    /\ tempOutcome = "Skipped"
    /\ mqtt_connected
    /\ tick >= 1

\* -------------------------------------------------------------------- C15
\* C15: mqtt_client_connect is called in exactly the steps in which the
\* resolver delivers an address, once per delivery and right after it.
C15_ConnectWithResolution ==
    [][ /\ (Count(events', "connect_request") - Count(events, "connect_request"))
             = (Count(events', "dns_found") - Count(events, "dns_found"))
        /\ \A i \in 1..Len(events') :
              /\ (events'[i] = "dns_found") =>
                    (i < Len(events') /\ events'[i + 1] = "connect_request")
              /\ (events'[i] = "connect_request") =>
                    (i > 1 /\ events'[i - 1] = "dns_found")
      ]_vars

\* the address came on the synchronous fast path and the connect was issued
\* in the same step, before the first poll
C15_Witness ==
    /\ events = <<"dns_request", "dns_found", "connect_request">>
    /\ pc = "cyw43_arch_poll"
    /\ tick = 0

\* -------------------------------------------------------------------- C16
\* C16: a channel's last-published value changes only in that channel's own
\* step and only when the step attempts a publish, and it then equals the
\* step's reading; a step whose reading equals it is Skipped, calls nothing
\* and leaves it alone; the other channel's step and the callbacks leave it
\* alone.
C16_LastPublishedFrame ==
    [][ /\ (last_rack_door_state' # last_rack_door_state) =>
              (DoorStepTaken /\ doorOutcome' \in {"Sent", "Dropped", "Failed"})
        /\ (last_rack_temperature' # last_rack_temperature) =>
              (TempStepTaken /\ tempOutcome' \in {"Sent", "Dropped", "Failed"})
        /\ (DoorStepTaken /\ doorOutcome' # "Skipped") =>
              last_rack_door_state' = rack_port_state'
        /\ (TempStepTaken /\ tempOutcome' # "Skipped") =>
              last_rack_temperature' = rack_temperature'
        /\ (DoorStepTaken /\ rack_port_state' = last_rack_door_state) =>
              /\ doorOutcome' = "Skipped"
              /\ NewCalls = <<>>
              /\ last_rack_door_state' = last_rack_door_state
        /\ (TempStepTaken /\ rack_temperature' = last_rack_temperature) =>
              /\ tempOutcome' = "Skipped"
              /\ NewCalls = <<>>
              /\ last_rack_temperature' = last_rack_temperature
        /\ DoorStepTaken => last_rack_temperature' = last_rack_temperature
        /\ TempStepTaken => last_rack_door_state' = last_rack_door_state
        /\ CallbackRan =>
              /\ last_rack_door_state' = last_rack_door_state
              /\ last_rack_temperature' = last_rack_temperature
      ]_vars

\* the door stayed closed (skipped) in a tick in which a new temperature was
\* sent: the door's remembered value is untouched
C16_Witness ==
    /\ pc = "sleep"
    /\ doorOutcome = "Skipped"
    /\ last_rack_door_state = TRUE
    /\ tempOutcome = "Sent"
    /\ last_rack_temperature = rack_temperature

\* -------------------------------------------------------------------- C17
LoopOrder == {<<"cyw43_arch_poll", "door">>, <<"door", "temp">>,
              <<"temp", "sleep">>, <<"sleep", "cyw43_arch_poll">>}

\* C17: the loop goes poll, door, temperature, sleep and back to poll, and
\* starts with poll; within a tick callbacks run before either channel is
\* processed, and a door message is handed over before a temperature message.
C17_TickOrder ==
    [][ /\ (pc \in LoopPcs /\ pc' # pc) => (<<pc, pc'>> \in LoopOrder)
        /\ (pc \notin LoopPcs /\ pc' \in LoopPcs) => pc' = "cyw43_arch_poll"
        /\ (CallbackRan /\ pc \in LoopPcs) =>
              /\ pc = "cyw43_arch_poll"
              /\ mqtt_tx = <<>>
              /\ doorOutcome = "None"
              /\ tempOutcome = "None"
        /\ DoorStepTaken =>
              /\ mqtt_tx = <<>>
              /\ tempOutcome = "None"
              /\ \A i \in 1..Len(NewCalls) : NewCalls[i].topic = TopicDoor
        /\ TempStepTaken =>
              /\ doorOutcome # "None"
              /\ \A i \in 1..Len(mqtt_tx) : mqtt_tx[i].topic = TopicDoor
              /\ \A i \in 1..Len(NewCalls) : NewCalls[i].topic = TopicTemperature
      ]_vars

\* both channels changed in one tick: door message first, temperature second
C17_Witness ==
    /\ pc = "sleep"
    /\ Len(mqtt_tx) = 2
    /\ mqtt_tx[1].topic = TopicDoor
    /\ mqtt_tx[2].topic = TopicTemperature

\* -------------------------------------------------------------------- C18
\* C18: the door reading is the inverse of the raw pin level, and every door
\* message handed to the transport is "ON" exactly when the level read in
\* that tick was low and "OFF" exactly when it was high, on the door topic
\* with QoS 0, retain 0 and the length of the text.
C18_DoorPayload ==
    [][ DoorStepTaken =>
          /\ rack_port_state' = ~gpio_level'
          /\ \A i \in 1..Len(NewCalls) :
                /\ NewCalls[i].topic = TopicDoor
                /\ NewCalls[i].qos = 0
                /\ NewCalls[i].retain = 0
                /\ (NewCalls[i].payload = <<"O", "N">>) <=> (gpio_level' = FALSE)
                /\ (NewCalls[i].payload = <<"O", "F", "F">>) <=> (gpio_level' = TRUE)
                /\ NewCalls[i].length = Len(NewCalls[i].payload)
      ]_vars

\* the pin read low and "ON" was handed to the transport
C18_Witness ==
    /\ pc = "temp"
    /\ gpio_level = FALSE
    /\ Len(mqtt_tx) = 1
    /\ mqtt_tx[1].payload = <<"O", "N">>

\* -------------------------------------------------------------------- C19
\* an address was delivered, then a connect request issued, then accepted
ResolvedConnectedAccepted ==
    \E i, j, k \in 1..Len(events) :
        /\ i < j /\ j < k
        /\ events[i] = "dns_found"
        /\ events[j] = "connect_request"
        /\ events[k] = "conn_accepted"

\* C19: mqtt_connected implies an earlier connect request, every connect
\* request is preceded by a delivered address, and a call of mqtt_publish is
\* preceded by a delivered address, a connect request and an accepted
\* connection status, in that order.
C19_LifecycleOrder ==
    /\ mqtt_connected => ResolvedConnectedAccepted
    /\ \A j \in 1..Len(events) :
          (events[j] = "connect_request") =>
              \E i \in 1..(j - 1) : events[i] = "dns_found"
    /\ \A k \in 1..Len(events) :
          (events[k] = "conn_accepted") =>
              \E j \in 1..(k - 1) : events[j] = "connect_request"
    /\ (mqtt_tx # <<>>) => ResolvedConnectedAccepted

\* a message was handed to the transport after resolution, connect and accept
C19_Witness ==
    /\ mqtt_tx # <<>>
    /\ mqtt_connected
    /\ broker_ip = "addr"
    /\ ResolvedConnectedAccepted

\* -------------------------------------------------------------------- C20
\* C20: neither channel's step changes mqtt_connected, so in a tick in which
\* both readings changed the two attempts end alike: both dropped with no
\* call, or both handed to the transport.
C20_SameConnectionStateInTick ==
    [][ /\ (DoorStepTaken \/ TempStepTaken) =>
              (mqtt_connected' = mqtt_connected /\ ~CallbackRan)
        /\ (TempStepTaken /\ doorOutcome # "Skipped" /\ tempOutcome' # "Skipped") =>
              /\ (doorOutcome = "Dropped") <=> (tempOutcome' = "Dropped")
              /\ (doorOutcome \in {"Sent", "Failed"})
                    <=> (tempOutcome' \in {"Sent", "Failed"})
              /\ Len(mqtt_tx') = (IF tempOutcome' = "Dropped" THEN 0 ELSE 2)
      ]_vars

\* both readings changed while the connect request was still unanswered:
\* both dropped
C20_Witness ==
    /\ pc = "sleep"
    /\ client_state = "MQTT_CONNECTING"
    /\ doorOutcome = "Dropped"
    /\ tempOutcome = "Dropped"
    /\ mqtt_tx = <<>>
====
